---- MODULE Spec2Model ----
(***************************************************************************)
(* State machine of train.py: the training / evaluation script of          *)
(* pytorch-deeplabv3-alphapilot.                                           *)
(*                                                                         *)
(* One execution of the script is one "process".  The file system (the run *)
(* folders run/run_NN and the checkpoint files inside them) outlives a     *)
(* process, so the model runs several processes one after the other.       *)
(* The script's settings (nEpochs, snapshot, p['nAveGrad'], ...) and the   *)
(* configuration file are held in cfg; resume_epoch is the one setting     *)
(* that is edited between two launches ("change if want to resume").       *)
(*                                                                         *)
(* Collaborators outside the repository's source file are modelled by      *)
(* their interface: the network is a version number that optimizer.step()  *)
(* advances, a loss and an IoU are values drawn from small sets, a data    *)
(* set is the sequence of its samples, a DataLoader with drop_last=True    *)
(* yields len(dataset) // batch_size batches of batch_size samples.        *)
(* Floating point: config.train.percentageDataForTraining is the rational  *)
(* pctNum / pctDen and int(f * len(db)) is computed exactly.               *)
(***************************************************************************)
EXTENDS Integers, Sequences, FiniteSets, TLC

VARIABLES
    cfg,              \* the script's settings and config.yaml (fixed during a behaviour)
    fs_runs,          \* file system: names NN of the folders run/run_NN (digit sequences)
    fs_ckpt,          \* file system: checkpoint path -> saved model state
    resumes,          \* number of processes started with resume_epoch # 0
    pc,               \* position of the running process in the script
    err,              \* the exception that ended the process ("" when none)
    resume_epoch,     \* line 53
    run_id,           \* lines 111-117
    net,              \* the model state (state_dict), as a version number
    optimizer,        \* the live optimizer instance
    sched_steps,      \* number of exp_lr_scheduler.step() calls
    writer,           \* SummaryWriter: state and the events of the current epoch
    data,             \* db_train, db_validation, db_test, db_test_list
    running_loss_tr, running_loss_val, running_loss_ts,
    aveGrad, global_step,
    epoch, ii,
    loader_idx,       \* position in dataloader_list (1 validation, 2 test)
    total_iou,
    images_list,      \* number of tensors in images_list
    pass_ious,        \* values utils.get_iou returned in the current pass
    pass_images,      \* images forwarded in the current pass
    results_png,      \* file system: indices ii of data/results/.../%04d-results.png
    processed         \* epochs whose loop body this process has entered

fsvars   == <<fs_runs, fs_ckpt, results_png>>
procvars == <<pc, err, resume_epoch, run_id, net, optimizer, sched_steps, writer, data,
              running_loss_tr, running_loss_val, running_loss_ts, aveGrad, global_step,
              epoch, ii, loader_idx, total_iou, images_list, pass_ious, pass_images,
              processed>>
vars     == <<cfg, resumes, fsvars, procvars>>

(***************************************************************************)
(* Bounds of the model.                                                    *)
(***************************************************************************)
MaxEpochs == 3
MaxAveGrad == 3
MaxEpochSize == 2
MaxSnapshot == 2
MaxRuns == 2
MaxResumes == 1
MaxLen == 12
MaxManyRuns == 102

(***************************************************************************)
(* Settings of the script that no claim varies.                            *)
(***************************************************************************)
nTestInterval == 1
useTest == TRUE
backbone == "xception"

\* line 130 / line 140
modelName == IF cfg.Model = "deeplab" THEN <<"deeplabv3plus-", backbone>> ELSE <<"unet">>

(***************************************************************************)
(* Run folder selection, lines 111-119.                                    *)
(***************************************************************************)
RECURSIVE Digits(_)
\* the decimal digits of n, most significant first (str(n))
Digits(n) == IF n < 10 THEN <<n>> ELSE Append(Digits(n \div 10), n % 10)

\* '{:02d}'.format(run_id): zero-padded to at least two digits
Format02d(n) == IF n < 10 THEN <<0, n>> ELSE Digits(n)

RECURSIVE ParseInt(_)
\* int(runs[-1].split('_')[-1])
ParseInt(ds) == IF ds = <<>> THEN 0 ELSE 10 * ParseInt(SubSeq(ds, 1, Len(ds) - 1)) + ds[Len(ds)]

RECURSIVE StrLess(_, _)
\* Python's order on strings, here on the digit strings after the common prefix
\* "<save_dir_root>/run/run_"
StrLess(a, b) ==
    IF a = <<>> THEN b # <<>>
    ELSE IF b = <<>> THEN FALSE
    ELSE IF a[1] # b[1] THEN a[1] < b[1]
    ELSE StrLess(Tail(a), Tail(b))

\* sorted(glob.glob(.../run_*))[-1]
SortedLast(names) == CHOOSE x \in names : \A y \in names : y = x \/ StrLess(y, x)

\* lines 111-116
SelectRunId(re) ==
    IF re # 0
    THEN (IF fs_runs # {} THEN ParseInt(SortedLast(fs_runs)) ELSE 0)
    ELSE (IF fs_runs # {} THEN ParseInt(SortedLast(fs_runs)) + 1 ELSE 0)

\* line 119 and lines 170-172 / 339: the checkpoint path of an epoch
CheckpointPath(rid, e) == [dir |-> Format02d(rid), model |-> modelName, epoch |-> e]

(***************************************************************************)
(* Optimizer / scheduler construction, lines 123-150 and 268-271.          *)
(***************************************************************************)
\* utils.lr_poly(base_lr, iter, max_iter, power): the term, not its value
lr_poly(base, iter, max_iter, power10) ==
    [fn |-> "lr_poly", base |-> base, iter |-> iter, max_iter |-> max_iter, power10 |-> power10]

ConstLr(base) == [fn |-> "const", base |-> base, iter |-> 0, max_iter |-> 0, power10 |-> 0]

\* optim.SGD(...) / torch.optim.Adam(...): a fresh instance, no momentum state
NewOptimizer(kind, lr, serial) == [kind |-> kind, lr |-> lr, id |-> serial, steps |-> 0]

\* line 133 / line 143
InitialOptimizer ==
    IF cfg.Model = "deeplab"
    THEN NewOptimizer("SGD", ConstLr("p_lr"), 1)
    ELSE NewOptimizer("Adam", ConstLr("1e-4"), 1)

\* mutation: the rate is recomputed at the first epoch of each window
NewOptimizerDueAtZero(e) == e % cfg.epoch_size = 0

\* line 268
NewOptimizerDue(e) == e % cfg.epoch_size = cfg.epoch_size - 1

(***************************************************************************)
(* Dataset assembly, lines 221-252.                                        *)
(***************************************************************************)
\* AlphaPilotSegmentation(input_dir=..., ...): the samples of one folder
Dataset(split, d, L) == [k \in 1..L |-> <<split, d, k - 1>>]

range(n) == [k \in 1..n |-> k - 1]

\* torch.utils.data.Subset(db, indices)
Subset(db, idxs) == [k \in 1..Len(idxs) |-> db[idxs[k] + 1]]

\* mutation: the fraction is rounded up
train_size_ceil(L) == (cfg.pctNum * L + cfg.pctDen - 1) \div cfg.pctDen

\* line 225: int(config.train.percentageDataForTraining * len(db))
train_size(L) == (cfg.pctNum * L) \div cfg.pctDen

RECURSIVE ConcatDataset(_)
\* torch.utils.data.ConcatDataset(db_train_list)
ConcatDataset(list) ==
    IF list = <<>> THEN <<>> ELSE Head(list) \o ConcatDataset(Tail(list))

\* lines 221-227
db_train_list ==
    [i \in 1..Len(cfg.trainLens) |->
        Subset(Dataset("train", i, cfg.trainLens[i]), range(train_size(cfg.trainLens[i])))]

\* mutation: the first data set is kept
LoopAssignFirst(prev, new) == IF prev = <<>> THEN new ELSE prev

\* the variable a for loop leaves assigned: each iteration overwrites it
LoopAssign(prev, new) == new

RECURSIVE ForEachDataset(_, _, _, _)
\* lines 231-236 and 238-239: "for dataset in ...: db = AlphaPilotSegmentation(...)"
ForEachDataset(split, lens, i, cur) ==
    IF i > Len(lens) THEN cur
    ELSE ForEachDataset(split, lens, i + 1, LoopAssign(cur, Dataset(split, i, lens[i])))

\* lines 237-240
db_test_list_of(lens) == [i \in 1..Len(lens) |-> Dataset("real", i, lens[i])]

\* lines 221-240
AssembleData ==
    [db_train      |-> ConcatDataset(db_train_list),
     db_validation |-> ForEachDataset("synthetic", cfg.synthLens, 1, <<>>),
     db_test       |-> ForEachDataset("real", cfg.realLens, 1, <<>>),
     db_test_list  |-> db_test_list_of(cfg.realLens)]

NoData == [db_train |-> <<>>, db_validation |-> <<>>, db_test |-> <<>>, db_test_list |-> <<>>]

\* len(DataLoader(ds, batch_size=bs, drop_last=True))
LoaderLen(ds, bs) == Len(ds) \div bs

\* inputs.shape[0] of a batch of a drop_last loader
BatchLen(bs) == bs

\* lines 250-252
num_img_tr == LoaderLen(data.db_train, cfg.trainBatchSize)
num_img_val == LoaderLen(data.db_validation, cfg.trainBatchSize)
num_img_ts == LoaderLen(data.db_test, cfg.trainBatchSize)

(***************************************************************************)
(* The metrics writer.  writer.events holds the add_scalar / add_image     *)
(* calls of the current epoch (the sink is write-only: earlier epochs'     *)
(* events are never read back).  A scalar value is the fraction num/den.   *)
(***************************************************************************)
Event(tag, num, den, step) == [tag |-> tag, num |-> num, den |-> den, step |-> step]

add(w, ev) == [w EXCEPT !.events = Append(w.events, ev)]

NoWriter == [state |-> "undefined", events |-> <<>>]

\* the state of a network built with pretrained=True
Pretrained == 0

(***************************************************************************)
(* Launch: lines 42-257, the script up to the main loop.                   *)
(***************************************************************************)
\* line 178
SetupDue(re) == re # cfg.nEpochs

Launch(re) ==
    /\ pc \in {"idle", "done", "crashed"}
    /\ IF re = 0 THEN Cardinality(fs_runs) < cfg.maxRuns ELSE resumes < cfg.maxResumes
    /\ resumes' = IF re = 0 THEN resumes ELSE resumes + 1
    /\ LET rid == SelectRunId(re)
           path == CheckpointPath(rid, re - 1)
           loadFails == re # 0 /\ path \notin DOMAIN fs_ckpt
           setup == SetupDue(re) /\ ~loadFails
       IN  /\ resume_epoch' = re
           /\ run_id' = rid
           /\ optimizer' = InitialOptimizer
           /\ sched_steps' = 0
           \* lines 166-173
           /\ net' = IF re = 0 \/ loadFails THEN Pretrained ELSE fs_ckpt[path]
           /\ pc' = IF loadFails THEN "crashed" ELSE "epoch"
           /\ err' = IF loadFails THEN "FileNotFoundError" ELSE ""
           \* lines 178-182: SummaryWriter creates <save_dir>/models/<log_dir>
           /\ writer' = IF setup THEN [state |-> "open", events |-> <<>>] ELSE NoWriter
           /\ fs_runs' = IF setup THEN fs_runs \cup {Format02d(rid)} ELSE fs_runs
           \* lines 221-246
           /\ data' = IF setup THEN AssembleData ELSE NoData
    \* lines 253-257
    /\ running_loss_tr' = 0
    /\ running_loss_val' = 0
    /\ running_loss_ts' = 0
    /\ aveGrad' = 0
    /\ global_step' = 0
    \* line 261: range(resume_epoch, nEpochs)
    /\ epoch' = re
    /\ ii' = 0
    /\ loader_idx' = 0
    /\ total_iou' = 0
    /\ images_list' = 0
    /\ pass_ious' = <<>>
    /\ pass_images' = 0
    /\ processed' = <<>>
    /\ UNCHANGED <<cfg, fs_ckpt, results_png>>

(***************************************************************************)
(* BeginEpoch: lines 261-273.                                              *)
(***************************************************************************)
BeginEpoch ==
    /\ pc = "epoch"
    /\ epoch < cfg.nEpochs
    /\ IF cfg.Model = "unet"
       THEN /\ sched_steps' = sched_steps + 1
            /\ UNCHANGED optimizer
       ELSE /\ optimizer' =
                 IF NewOptimizerDue(epoch)
                 THEN NewOptimizer("SGD", lr_poly("p_lr", epoch, cfg.nEpochs, 9),
                                   optimizer.id + 1)
                 ELSE optimizer
            /\ UNCHANGED sched_steps
    /\ writer' = [writer EXCEPT !.events = <<>>]
    /\ processed' = Append(processed, epoch)
    /\ ii' = 0
    /\ pc' = "train"
    /\ UNCHANGED <<cfg, resumes, fsvars, err, resume_epoch, run_id, net, data,
                   running_loss_tr, running_loss_val, running_loss_ts, aveGrad,
                   global_step, epoch, loader_idx, total_iou, images_list, pass_ious,
                   pass_images>>

(***************************************************************************)
(* TrainBatch: lines 275-333, one iteration of the training loop.          *)
(***************************************************************************)
\* mutation: the step is taken from the batch index of the epoch
NextGlobalStepFromIndex(g) == ii + 1

\* line 280
NextGlobalStep(g) == g + 1

\* mutation: the update comes one batch early
StepDueEarly(a) == a % cfg.nAveGrad = cfg.nAveGrad - 1

\* line 309
StepDue(a) == a % cfg.nAveGrad = 0

\* lines 316-320
plot_per_iter == IF num_img_tr < 10 THEN num_img_tr ELSE 10

PlotDue(i) == i % (num_img_tr \div plot_per_iter) = 0

TrainBatch(loss) ==
    /\ pc = "train"
    /\ ii < num_img_tr
    /\ global_step' = NextGlobalStep(global_step)
    /\ LET gs == NextGlobalStep(global_step)
           w1 == add(writer, Event("Epoch Num", epoch, 1, gs))
       IN  IF cfg.Model = "unet"
           THEN \* line 289: nn.CrossEntropyLoss.forward takes no size_average /
                \* batch_average keyword
                /\ writer' = w1
                /\ pc' = "crashed"
                /\ err' = "TypeError"
                /\ UNCHANGED <<running_loss_tr, aveGrad, net, optimizer, ii>>
           ELSE LET last == ii % num_img_tr = num_img_tr - 1
                    rl   == running_loss_tr + loss
                    w2   == IF last
                            THEN add(w1, Event("data/total_loss_epoch", rl, num_img_tr, gs))
                            ELSE w1
                    ag   == aveGrad + 1
                    step == StepDue(ag)
                    w3   == IF step
                            THEN add(w2, Event("data/total_loss_iter", loss, cfg.nAveGrad, gs))
                            ELSE w2
                    w4   == IF PlotDue(ii) THEN add(w3, Event("Train", 0, 1, gs)) ELSE w3
                IN  /\ running_loss_tr' = IF last THEN 0 ELSE rl
                    /\ aveGrad' = IF step THEN 0 ELSE ag
                    \* optimizer.step(); optimizer.zero_grad()
                    /\ net' = IF step THEN net + 1 ELSE net
                    /\ optimizer' = IF step
                                    THEN [optimizer EXCEPT !.steps = @ + 1]
                                    ELSE optimizer
                    /\ writer' = w4
                    /\ ii' = ii + 1
                    /\ UNCHANGED <<pc, err>>
    /\ UNCHANGED <<cfg, resumes, fsvars, resume_epoch, run_id, sched_steps, data,
                   running_loss_val, running_loss_ts, epoch, loader_idx, total_iou,
                   images_list, pass_ious, pass_images, processed>>

(***************************************************************************)
(* SaveModel: lines 336-340, after the training loop of the epoch.         *)
(***************************************************************************)
\* mutation: the snapshot is taken at the first epoch of each interval
SnapshotDueAtZero(e) == e % cfg.snapshot = 0

\* line 338
SnapshotDue(e) == e % cfg.snapshot = cfg.snapshot - 1

\* torch.save(net.state_dict(), path)
WriteFile(files, path, content) ==
    [q \in DOMAIN files \cup {path} |-> IF q = path THEN content ELSE files[q]]

SaveModel ==
    /\ pc = "train"
    /\ ii >= num_img_tr
    /\ fs_ckpt' = IF SnapshotDue(epoch)
                  THEN WriteFile(fs_ckpt, CheckpointPath(run_id, epoch), net)
                  ELSE fs_ckpt
    /\ pc' = "eval"
    /\ UNCHANGED <<cfg, resumes, fs_runs, results_png, err, resume_epoch, run_id, net,
                   optimizer, sched_steps, writer, data, running_loss_tr,
                   running_loss_val, running_loss_ts, aveGrad, global_step, epoch, ii,
                   loader_idx, total_iou, images_list, pass_ious, pass_images, processed>>

(***************************************************************************)
(* BeginEval: lines 342-347.  Without a testing epoch the for loop goes to *)
(* its next epoch.                                                         *)
(***************************************************************************)
\* line 343
EvalDue(e) == useTest /\ e % nTestInterval = nTestInterval - 1

BeginEval ==
    /\ pc = "eval"
    /\ IF EvalDue(epoch)
       THEN /\ images_list' = 0
            /\ loader_idx' = 1
            /\ pc' = "pass"
            /\ UNCHANGED epoch
       ELSE /\ epoch' = epoch + 1
            /\ pc' = "epoch"
            /\ UNCHANGED <<images_list, loader_idx>>
    /\ UNCHANGED <<cfg, resumes, fsvars, err, resume_epoch, run_id, net, optimizer,
                   sched_steps, writer, data, running_loss_tr, running_loss_val,
                   running_loss_ts, aveGrad, global_step, ii, total_iou, pass_ious,
                   pass_images, processed>>

(***************************************************************************)
(* BeginPass: lines 348-354, one iteration of "for dataloader in           *)
(* dataloader_list"; after the last one the epoch ends.                    *)
(***************************************************************************)
\* mutation: total_iou is initialised once, outside the loop over the loaders
PassStartIouCarried == total_iou

\* line 349
PassStartIou == 0

BeginPass ==
    /\ pc = "pass"
    /\ IF loader_idx <= 2
       THEN /\ total_iou' = PassStartIou
            /\ pass_ious' = <<>>
            /\ pass_images' = 0
            /\ ii' = 0
            /\ pc' = IF loader_idx = 1 THEN "val" ELSE "test"
            /\ UNCHANGED epoch
       ELSE /\ epoch' = epoch + 1
            /\ pc' = "epoch"
            /\ UNCHANGED <<total_iou, pass_ious, pass_images, ii>>
    /\ UNCHANGED <<cfg, resumes, fsvars, err, resume_epoch, run_id, net, optimizer,
                   sched_steps, writer, data, running_loss_tr, running_loss_val,
                   running_loss_ts, aveGrad, global_step, loader_idx, images_list,
                   processed>>

(***************************************************************************)
(* ValBatch: lines 356-404, one batch of the validation loader.            *)
(***************************************************************************)
\* lines 381 and 417: ii * p['trainBatchSize'] + inputs.shape[0]
NumImages(i) == i * cfg.trainBatchSize + BatchLen(cfg.trainBatchSize)

ValBatch(loss, iou) ==
    /\ pc = "val"
    /\ ii < num_img_val
    /\ pass_ious' = Append(pass_ious, iou)
    /\ pass_images' = pass_images + BatchLen(cfg.trainBatchSize)
    /\ total_iou' = total_iou + iou
    /\ LET last == ii % num_img_val = num_img_val - 1
           rl   == running_loss_val + loss
           w1   == add(add(writer,
                           Event("data/val_loss_epoch", rl, num_img_val, global_step)),
                       Event("data/val_miour", total_iou + iou, NumImages(ii), global_step))
       IN  IF ~last
           THEN /\ running_loss_val' = rl
                /\ ii' = ii + 1
                /\ UNCHANGED <<writer, images_list, pc, err>>
           ELSE /\ running_loss_val' = 0
                /\ IF BatchLen(cfg.trainBatchSize) < 2
                   THEN \* lines 398-401: img_tensor[1] of a one-image batch
                        /\ writer' = w1
                        /\ images_list' = 3
                        /\ pc' = "crashed"
                        /\ err' = "IndexError"
                        /\ UNCHANGED ii
                   ELSE /\ writer' = add(w1, Event("Validation", 0, 1, global_step))
                        /\ images_list' = 6
                        /\ ii' = ii + 1
                        /\ UNCHANGED <<pc, err>>
    /\ UNCHANGED <<cfg, resumes, fsvars, resume_epoch, run_id, net, optimizer,
                   sched_steps, data, running_loss_tr, running_loss_ts, aveGrad,
                   global_step, epoch, loader_idx, processed>>

(***************************************************************************)
(* TestBatch: lines 356-370 and 407-438, one batch of the test loader.     *)
(***************************************************************************)
TestBatch(loss, iou) ==
    /\ pc = "test"
    /\ ii < num_img_ts
    /\ pass_ious' = Append(pass_ious, iou)
    /\ pass_images' = pass_images + BatchLen(cfg.trainBatchSize)
    /\ total_iou' = total_iou + iou
    \* line 414: save_test_img(inputs, outputs, ii)
    /\ results_png' = results_png \cup {ii}
    /\ LET last == ii % num_img_ts = num_img_ts - 1
           rl   == running_loss_ts + loss
       IN  IF ~last
           THEN /\ running_loss_ts' = rl
                /\ UNCHANGED <<writer, images_list>>
           ELSE /\ running_loss_ts' = 0
                /\ writer' = add(add(add(writer,
                                 Event("data/test_loss_epoch", rl, num_img_ts, global_step)),
                                 Event("data/test_miour", total_iou + iou, NumImages(ii),
                                       global_step)),
                                 Event("Test", 0, 1, global_step))
                /\ images_list' = images_list + 3
    /\ ii' = ii + 1
    /\ UNCHANGED <<cfg, resumes, fs_runs, fs_ckpt, pc, err, resume_epoch, run_id, net,
                   optimizer, sched_steps, data, running_loss_tr, running_loss_val, aveGrad,
                   global_step, epoch, loader_idx, processed>>

(***************************************************************************)
(* EndPass: the inner for loop of line 356 is exhausted.                   *)
(***************************************************************************)
EndPass ==
    /\ \/ pc = "val" /\ ii >= num_img_val
       \/ pc = "test" /\ ii >= num_img_ts
    /\ loader_idx' = loader_idx + 1
    /\ pc' = "pass"
    /\ UNCHANGED <<cfg, resumes, fsvars, err, resume_epoch, run_id, net, optimizer,
                   sched_steps, writer, data, running_loss_tr, running_loss_val,
                   running_loss_ts, aveGrad, global_step, epoch, ii, total_iou,
                   images_list, pass_ious, pass_images, processed>>

(***************************************************************************)
(* Close: line 441, after the main loop.                                   *)
(***************************************************************************)
Close ==
    /\ pc = "epoch"
    /\ epoch >= cfg.nEpochs
    /\ IF writer.state = "undefined"
       THEN \* the name writer was never bound (line 178 skipped the setup)
            /\ pc' = "crashed"
            /\ err' = "NameError"
            /\ UNCHANGED writer
       ELSE /\ writer' = [writer EXCEPT !.state = "closed"]
            /\ pc' = "done"
            /\ UNCHANGED err
    /\ UNCHANGED <<cfg, resumes, fsvars, resume_epoch, run_id, net, optimizer,
                   sched_steps, data, running_loss_tr, running_loss_val,
                   running_loss_ts, aveGrad, global_step, epoch, ii, loader_idx,
                   total_iou, images_list, pass_ious, pass_images, processed>>

Next ==
    \/ \E re \in 0..cfg.nEpochs : Launch(re)
    \/ BeginEpoch
    \/ \E loss \in cfg.lossVals : TrainBatch(loss)
    \/ SaveModel
    \/ BeginEval
    \/ BeginPass
    \/ \E loss \in cfg.lossVals, iou \in cfg.iouVals : ValBatch(loss, iou)
    \/ \E loss \in cfg.lossVals, iou \in cfg.iouVals : TestBatch(loss, iou)
    \/ EndPass
    \/ Close

(***************************************************************************)
(* Initial states: no process has run, the run directory is empty.         *)
(***************************************************************************)
InitProc ==
    /\ fs_runs = {}
    /\ fs_ckpt = <<>>
    /\ results_png = {}
    /\ resumes = 0
    /\ pc = "idle"
    /\ err = ""
    /\ resume_epoch = 0
    /\ run_id = 0
    /\ net = Pretrained
    /\ optimizer = NewOptimizer("none", ConstLr("none"), 0)
    /\ sched_steps = 0
    /\ writer = NoWriter
    /\ data = NoData
    /\ running_loss_tr = 0
    /\ running_loss_val = 0
    /\ running_loss_ts = 0
    /\ aveGrad = 0
    /\ global_step = 0
    /\ epoch = 0
    /\ ii = 0
    /\ loader_idx = 0
    /\ total_iou = 0
    /\ images_list = 0
    /\ pass_ious = <<>>
    /\ pass_images = 0
    /\ processed = <<>>

Config(ne, w, es, sn, m, b, pn, pd, tl, sl, rl, lv, iv, mr, ms) ==
    [nEpochs |-> ne, nAveGrad |-> w, epoch_size |-> es, snapshot |-> sn, Model |-> m,
     trainBatchSize |-> b, pctNum |-> pn, pctDen |-> pd, trainLens |-> tl,
     synthLens |-> sl, realLens |-> rl, lossVals |-> lv, iouVals |-> iv, maxRuns |-> mr, maxResumes |-> ms]

\* The loop: every schedule setting varies, the data sets are small.  A second,
\* narrow family draws the losses from two values and has loaders without a batch.
Init ==
    /\ cfg \in {Config(ne, w, es, sn, m, d[1], 1, 1, <<d[2]>>, <<5, 2 * d[1]>>,
                       <<3, 2 * d[1]>>, {1}, {0, 1}, MaxRuns, MaxResumes) :
                   ne \in 1..MaxEpochs, w \in 1..MaxAveGrad, es \in 1..MaxEpochSize,
                   sn \in 1..MaxSnapshot, m \in {"deeplab", "unet"},
                   d \in {<<1, 2>>, <<2, 1>>, <<2, 4>>, <<2, 6>>}}
               \cup {Config(2, w, 1, 1, "deeplab", 2, 1, 1, <<4>>, ev[1], ev[2],
                            {1, 2}, {0, 1}, 1, MaxResumes) :
                        w \in 1..2, ev \in {<<(<<4>>), (<<2>>)>>, <<(<<1>>), (<<0>>)>>}}
    /\ InitProc

\* The data sets: every length, fraction and batch size varies, the run is one
\* epoch long.
InitData ==
    /\ cfg \in {Config(1, 1, 1, 1, "deeplab", b, f[1], f[2], tl, ev[1], ev[2],
                       {1}, {1}, MaxRuns, MaxResumes) :
                   b \in 1..3,
                   f \in {<<1, 1>>, <<1, 2>>, <<2, 3>>, <<0, 1>>},
                   tl \in {<<a>> : a \in 0..MaxLen}
                          \cup {<<a, c>> : a \in {2, MaxLen}, c \in 0..MaxLen},
                   ev \in {<<(<<4>>), (<<2>>)>>,
                           <<(<<2, 6>>), (<<6, 4>>)>>,
                           <<(<<6, 0, 3>>), (<<1, 5, 2>>)>>,
                           <<(<<3, 1>>), (<<2, 0>>)>>}}
    /\ InitProc

\* The run folders: one small configuration, launched again and again.
InitRuns ==
    /\ cfg = Config(2, 1, 1, 1, "deeplab", 2, 1, 1, <<2>>, <<2>>, <<2>>,
                    {1}, {1}, MaxManyRuns, MaxResumes)
    /\ InitProc

Spec == Init /\ [][Next]_vars

SpecData == InitData /\ [][Next]_vars

SpecRuns == InitRuns /\ [][Next]_vars

(***************************************************************************)
(* Helpers of the properties.                                              *)
(***************************************************************************)
RECURSIVE SumSeq(_)
SumSeq(q) == IF q = <<>> THEN 0 ELSE Head(q) + SumSeq(Tail(q))

\* a process is running or has ended, and it got past the checkpoint load
Started == pc # "idle" /\ err # "FileNotFoundError"

\* the step is a step of the running process, not the launch of a new one
SameProcess == pc \notin {"idle", "done", "crashed"}

\* the events of the current epoch that carry a tag
EventsOf(tag) == {k \in 1..Len(writer.events) : writer.events[k].tag = tag}

\* the epochs of this process, so far, at whose start the polynomial policy
\* builds an optimizer
DueEpochs == {k \in 1..Len(processed) :
                 processed[k] % cfg.epoch_size = cfg.epoch_size - 1}

(***************************************************************************)
(* C1: an optimizer step happens exactly once every W = p['nAveGrad']      *)
(* processed training batches, over the whole run: the k-th processed      *)
(* batch steps the optimizer iff k mod W = 0, aveGrad is 0 right after a   *)
(* step and stays in 0..W-1, and nothing steps the optimizer outside the   *)
(* training loop (in particular not the evaluation loop).                  *)
(***************************************************************************)
C1_Counter ==
    /\ aveGrad \in 0..(cfg.nAveGrad - 1)
    /\ (Started /\ err = "") => aveGrad = global_step % cfg.nAveGrad

C1_BatchStep ==
    (SameProcess /\ global_step' # global_step /\ err' = "") =>
        IF global_step' % cfg.nAveGrad = 0
        THEN net' = net + 1 /\ optimizer'.steps = optimizer.steps + 1 /\ aveGrad' = 0
        ELSE net' = net /\ optimizer' = optimizer /\ aveGrad' = aveGrad + 1

C1_NoOtherStep ==
    (SameProcess /\ global_step' = global_step) =>
        /\ net' = net
        /\ aveGrad' = aveGrad
        /\ pc \in {"eval", "pass", "val", "test"} => optimizer' = optimizer

\* C1: the counter follows the batch count, and the optimizer steps at every
\* W-th processed batch and nowhere else
C1_StepEveryWindow == [](C1_Counter) /\ [][C1_BatchStep /\ C1_NoOtherStep]_vars

\* the sixth batch of a run with W = 3 and two batches per epoch: the second
\* step, in the third epoch, taken by a replaced optimizer
C1_Witness ==
    /\ cfg.nAveGrad = 3 /\ num_img_tr = 2 /\ pc = "train"
    /\ epoch = 2 /\ global_step = 6 /\ aveGrad = 0
    /\ net = 2 /\ optimizer.id > 1 /\ optimizer.steps = 1

(***************************************************************************)
(* C2: under the polynomial-decay policy ('deeplab') a new optimizer is    *)
(* built at the start of epoch e, before any batch of e, iff               *)
(* e mod epoch_size = epoch_size - 1, with the rate                        *)
(* lr_poly(p['lr'], e, nEpochs, 0.9); every step of epoch e is taken by    *)
(* the optimizer built last.  Under the fixed-schedule policy ('unet') the *)
(* optimizer is built once and the scheduler is stepped once per epoch.    *)
(***************************************************************************)
C2_Live ==
    (Started /\ cfg.Model = "deeplab") =>
        /\ optimizer.kind = "SGD"
        /\ optimizer.id = 1 + Cardinality(DueEpochs)
        /\ IF DueEpochs = {}
           THEN optimizer.lr = ConstLr("p_lr")
           ELSE LET last == CHOOSE k \in DueEpochs : \A j \in DueEpochs : j <= k
                IN  optimizer.lr = [fn |-> "lr_poly", base |-> "p_lr",
                                    iter |-> processed[last],
                                    max_iter |-> cfg.nEpochs, power10 |-> 9]
        /\ sched_steps = 0

C2_Fixed ==
    (Started /\ cfg.Model = "unet") =>
        /\ optimizer.kind = "Adam" /\ optimizer.id = 1
        /\ optimizer.lr = ConstLr("1e-4")
        /\ sched_steps = Len(processed)

C2_Construction ==
    SameProcess =>
        /\ (optimizer'.id # optimizer.id) =>
              /\ cfg.Model = "deeplab"
              /\ pc = "epoch" /\ pc' = "train" /\ ii' = 0
              /\ epoch % cfg.epoch_size = cfg.epoch_size - 1
              /\ optimizer'.id = optimizer.id + 1 /\ optimizer'.steps = 0
        /\ (pc = "epoch" /\ pc' = "train" /\ cfg.Model = "deeplab"
              /\ epoch % cfg.epoch_size = cfg.epoch_size - 1) =>
              optimizer'.id = optimizer.id + 1
        /\ (net' # net) => (optimizer'.id = optimizer.id
                            /\ optimizer'.steps = optimizer.steps + 1)

\* C2: the live optimizer is the one the policy prescribes, and it is replaced
\* only at the start of the epochs with e mod epoch_size = epoch_size - 1
C2_OptimizerPolicy == [](C2_Live /\ C2_Fixed) /\ [][C2_Construction]_vars

\* epoch_size = 2: the optimizer built at the start of epoch 1 has taken a step
\* in epoch 2, and no optimizer was built for epoch 0 or epoch 2
C2_Witness ==
    /\ cfg.Model = "deeplab" /\ cfg.epoch_size = 2 /\ resume_epoch = 0
    /\ epoch = 2 /\ pc = "train" /\ ii > 0
    /\ optimizer.id = 2 /\ optimizer.steps > 1
    /\ optimizer.lr.iter = 1

(***************************************************************************)
(* C4: a checkpoint is written for epoch e iff e mod snapshot =            *)
(* snapshot - 1, after all training batches of e and before its            *)
(* evaluation pass, to the path of (run folder, model name, e), and it     *)
(* holds the model state after the last optimizer step of epoch e.  A      *)
(* fresh run of nEpochs epochs writes floor(nEpochs / snapshot)            *)
(* checkpoints, each to a path of its own.                                 *)
(***************************************************************************)
\* the state the process started from
LoadedState ==
    IF resume_epoch = 0 THEN 0
    ELSE fs_ckpt[[dir |-> Format02d(run_id), model |-> modelName,
                  epoch |-> resume_epoch - 1]]

C4_WriteStep ==
    SameProcess =>
        IF pc = "train" /\ pc' = "eval"
        THEN /\ ii = num_img_tr
             /\ LET path == [dir |-> Format02d(run_id), model |-> modelName,
                             epoch |-> epoch]
                IN  IF epoch % cfg.snapshot = cfg.snapshot - 1
                    THEN /\ DOMAIN fs_ckpt' = DOMAIN fs_ckpt \cup {path}
                         /\ fs_ckpt'[path] = net
                         /\ net = LoadedState + (global_step \div cfg.nAveGrad)
                         /\ global_step = Len(processed) * num_img_tr
                         /\ \A q \in DOMAIN fs_ckpt \ {path} : fs_ckpt'[q] = fs_ckpt[q]
                    ELSE fs_ckpt' = fs_ckpt
        ELSE fs_ckpt' = fs_ckpt

C4_Count ==
    (pc = "done" /\ resume_epoch = 0) =>
        /\ Cardinality({q \in DOMAIN fs_ckpt : q.dir = Format02d(run_id)})
              = cfg.nEpochs \div cfg.snapshot
        /\ \A q \in DOMAIN fs_ckpt :
              q.dir = Format02d(run_id) =>
                  /\ q.model = modelName
                  /\ q.epoch \in 0..(cfg.nEpochs - 1)
                  /\ q.epoch % cfg.snapshot = cfg.snapshot - 1
                  /\ fs_ckpt[q] = ((q.epoch + 1) * num_img_tr) \div cfg.nAveGrad

\* C4: checkpoints are written only by the save step of the epochs with
\* e mod snapshot = snapshot - 1, and a fresh run leaves floor(nEpochs / snapshot)
C4_Checkpointing == [](C4_Count) /\ [][C4_WriteStep]_vars

\* snapshot = 2, three epochs: the fresh run has ended with one checkpoint, of
\* epoch 1, holding the state after the steps of epochs 0 and 1
C4_Witness ==
    /\ pc = "done" /\ resume_epoch = 0 /\ cfg.snapshot = 2 /\ cfg.nEpochs = 3
    /\ cfg.nAveGrad = 2 /\ num_img_tr = 3
    /\ \E q \in DOMAIN fs_ckpt : q.epoch = 1 /\ fs_ckpt[q] = 3 /\ net = 4

(***************************************************************************)
(* C5: global_step starts at 0, grows by exactly 1 with each processed     *)
(* training batch (before the forward pass), is never decremented or       *)
(* reset, and is left alone by checkpointing and evaluation; after k       *)
(* complete epochs of n batches it is k * n, and every validation / test   *)
(* metric of an epoch is keyed by the global step of the epoch's last      *)
(* training batch.                                                         *)
(***************************************************************************)
C5_Value ==
    Started =>
        /\ pc \in {"eval", "pass", "val", "test"} =>
              global_step = Len(processed) * num_img_tr
        /\ (pc \in {"epoch", "done"}) => global_step = Len(processed) * num_img_tr
        /\ (pc = "train") => global_step = (Len(processed) - 1) * num_img_tr + ii
        /\ \A k \in 1..Len(writer.events) :
              writer.events[k].tag \in {"data/val_loss_epoch", "data/val_miour",
                                        "Validation", "data/test_loss_epoch",
                                        "data/test_miour", "Test"}
                 => writer.events[k].step = Len(processed) * num_img_tr

C5_Step ==
    IF SameProcess
    THEN IF pc = "train" /\ ii < num_img_tr
         THEN global_step' = global_step + 1
         ELSE global_step' = global_step
    ELSE global_step' = 0

\* C5: global_step counts the processed training batches of the process and keys
\* the evaluation metrics
C5_GlobalStep == [](C5_Value) /\ [][C5_Step]_vars

\* the test report of the third epoch of a run with three batches per epoch
C5_Witness ==
    /\ Len(processed) = 3 /\ num_img_tr = 3 /\ global_step = 9
    /\ pc = "test" /\ EventsOf("data/test_miour") # {} /\ EventsOf("data/val_miour") # {}

(***************************************************************************)
(* C9: in every validation pass and every test pass the loss / mIoU report *)
(* happens exactly once, at the last batch; the logged mIoU is the IoU     *)
(* accumulated over exactly the batches of that pass (nothing carried over *)
(* from the validation pass or from an earlier epoch) divided by the       *)
(* number of images of the pass; running_loss_val and running_loss_ts are  *)
(* 0 again when the pass ends.                                             *)
(***************************************************************************)
Reported(tag, n) ==
    /\ Cardinality(EventsOf(tag)) = 1
    /\ \A k \in EventsOf(tag) :
          /\ writer.events[k].num = SumSeq(pass_ious)
          /\ writer.events[k].den = pass_images
          /\ Len(pass_ious) = n
          /\ pass_images = n * cfg.trainBatchSize

ReportedBefore(tag, n) == Cardinality(EventsOf(tag)) = (IF n > 0 THEN 1 ELSE 0)

C10_RunsToCompletion ==
    (pc \in {"done", "crashed"} /\ err # "FileNotFoundError"
        /\ cfg.Model = "deeplab" /\ cfg.trainBatchSize >= 2) =>
        /\ pc = "done"
        /\ writer.state = "closed"
        /\ processed = [k \in 1..(cfg.nEpochs - resume_epoch) |-> resume_epoch + k - 1]

(***************************************************************************)
(* C3: checkpoint round trip.  When the highest-numbered run folder holds  *)
(* the checkpoint a run wrote for epoch E and a process is started with    *)
(* resume_epoch = E + 1, the process selects that folder, loads that file, *)
(* starts from the saved model state and goes on at epoch E + 1.           *)
(***************************************************************************)
HighestRun == CHOOSE h \in {ParseInt(x) : x \in fs_runs} :
                  \A x \in fs_runs : ParseInt(x) <= h

SavedFor(rid, e) == [dir |-> Format02d(rid), model |-> modelName, epoch |-> e]

\* the process has been launched and has not entered the loop yet
JustLaunched == pc \in {"epoch", "crashed"} /\ processed = <<>> /\ err \in {"", "FileNotFoundError"}

\* C3: a resuming process selects the highest-numbered folder and starts from
\* the state saved there
C3_RoundTrip ==
    (JustLaunched /\ resume_epoch # 0 /\ fs_runs # {}
        /\ SavedFor(HighestRun, resume_epoch - 1) \in DOMAIN fs_ckpt) =>
        /\ run_id = HighestRun
        /\ err = ""
        /\ net = fs_ckpt[SavedFor(HighestRun, resume_epoch - 1)]
        /\ epoch = resume_epoch

(***************************************************************************)
(* C6: for every number n >= 1 of training batches per epoch, at most 10   *)
(* training visualisation grids ('Train' images) are emitted in an epoch.  *)
(***************************************************************************)
C6_AtMostTenGrids == Cardinality(EventsOf("Train")) <= 10

(***************************************************************************)
(* C7: the training set is the concatenation, in configuration order, of   *)
(* the leading floor(f * L_i) samples of each source, and the training     *)
(* loader yields floor(sum_i floor(f * L_i) / B) batches per epoch.        *)
(***************************************************************************)
PrefixLen(i) == (cfg.pctNum * cfg.trainLens[i]) \div cfg.pctDen

RECURSIVE PrefixTotal(_)
\* the samples of the first i sources
PrefixTotal(i) == IF i = 0 THEN 0 ELSE PrefixTotal(i - 1) + PrefixLen(i)

SetupDone == Started /\ writer.state # "undefined"

SamplesOf(split, lens, k) == [j \in 1..lens[k] |-> <<split, k, j - 1>>]

\* C8: the validation and the test loader hold the last configured data set
C8_LastWriteWins ==
    SetupDone =>
        /\ data.db_validation = SamplesOf("synthetic", cfg.synthLens, Len(cfg.synthLens))
        /\ data.db_test = SamplesOf("real", cfg.realLens, Len(cfg.realLens))
        /\ Len(data.db_test_list) = Len(cfg.realLens)
        /\ \A i \in 1..Len(cfg.realLens) :
              data.db_test_list[i] = SamplesOf("real", cfg.realLens, i)
        /\ (pc = "val" /\ ii = num_img_val) =>
              pass_images = (cfg.synthLens[Len(cfg.synthLens)] \div cfg.trainBatchSize)
                               * cfg.trainBatchSize
        /\ (pc = "test" /\ ii = num_img_ts) =>
              pass_images = (cfg.realLens[Len(cfg.realLens)] \div cfg.trainBatchSize)
                               * cfg.trainBatchSize

\* three synthetic sets of 6, 0 and 3 samples, three real ones of 1, 5 and 2:
\* the test pass has ended after the one batch of the last real set
C8_Witness ==
    /\ cfg.synthLens = <<6, 0, 3>> /\ cfg.realLens = <<1, 5, 2>>
    /\ cfg.trainBatchSize = 2
    /\ Len(data.db_validation) = 3 /\ Len(data.db_test) = 2
    /\ Len(data.db_test_list) = 3
    /\ pc = "test" /\ ii = 1 /\ ii = num_img_ts /\ pass_images = 2

====
